---- MODULE Spec2Model ----
(***************************************************************************)
(* Model of src/src/lib.rs: the Vorbis comment tag store (VorbisComments   *)
(* for CommentHeader), the comment header encoder                          *)
(* (safe_make_comment_header), the reader (safe_read_comment_header) and   *)
(* the rewriter (safe_replace_comment_header).                             *)
(*                                                                         *)
(* A Rust String is modelled as the sequence of its bytes.  An element in  *)
(* 0..255 is one byte.  An element 256 + j stands for a run of             *)
(* 2^32 - 3 + j filler bytes, so that strings around the u32 boundary have *)
(* a representation.  Byte lengths are usize values kept as two limbs      *)
(* <<hi, lo>> of 16 bits (value hi * 2^16 + lo): a usize fits a u32        *)
(* exactly when hi < 2^16.                                                 *)
(***************************************************************************)
EXTENDS Integers, Sequences, FiniteSets, TLC

VARIABLES
    \* safe_replace_comment_header
    f_in,              \* the packets the PacketReader yields, in order
    new_header,        \* the new_header argument
    pc,                \* "call", "loop", "rewind", "returned", "panicked" ("idle": not running)
    rpos,              \* number of packets read so far
    header_done,       \* the local header_done
    new_comment_data,  \* the local new_comment_data
    f_out,             \* the packets handed to writer.write_packet, in order
    f_out_pos,         \* position of the Cursor f_out, in packets
    result,            \* "none", "Ok", "Err"
    exit_by,           \* which break left the loop
    replaced,          \* read indexes at which packet.data was assigned
    \* codec
    header,            \* the header argument of safe_make_comment_header
    cpc,               \* "init", "made", "read" ("idle": not running)
    made,              \* the result of safe_make_comment_header
    decoded,           \* the result of read_header_comment on made.data
    \* tag store
    store,             \* a CommentHeader edited through VorbisComments
    prev_store,        \* the store as the last VorbisComments call found it
    last_op            \* the last VorbisComments call, its arguments and result

vars == <<f_in, new_header, pc, rpos, header_done, new_comment_data, f_out,
          f_out_pos, result, exit_by, replaced, header, cpc, made, decoded,
          store, prev_store, last_op>>

rewriteVars == <<f_in, new_header, pc, rpos, header_done, new_comment_data,
                 f_out, f_out_pos, result, exit_by, replaced>>
codecVars == <<header, cpc, made, decoded>>
tagVars == <<store, prev_store, last_op>>

---------------------------------------------------------------------------
(* usize and u32 arithmetic *)

Limb == 256 * 256

USize(n) == <<n \div Limb, n % Limb>>

AddUSize(a, b) ==
    <<a[1] + b[1] + ((a[2] + b[2]) \div Limb), (a[2] + b[2]) % Limb>>

LessUSize(a, b) == a[1] < b[1] \/ (a[1] = b[1] /\ a[2] < b[2])

\* usize -> u32 by TryInto: fails when the value exceeds u32::MAX
try_into_u32_off_by_one(u) ==
    IF u[1] < Limb /\ ~(u[1] = Limb - 1 /\ u[2] = Limb - 1)
    THEN [ok |-> TRUE, val |-> u]
    ELSE [ok |-> FALSE, val |-> <<0, 0>>]
try_into_u32(u) ==
    IF u[1] < Limb THEN [ok |-> TRUE, val |-> u]
    ELSE [ok |-> FALSE, val |-> <<0, 0>>]

\* u32::to_le_bytes
to_le_bytes(u) == <<u[2] % 256, u[2] \div 256, u[1] % 256, u[1] \div 256>>

\* u32 from four little-endian bytes (ReadBytesExt::read_u32::<LittleEndian>)
from_le_bytes(b) == <<b[4] * 256 + b[3], b[2] * 256 + b[1]>>

---------------------------------------------------------------------------
(* Strings *)

EQ == <<61>>

IsRun(e) == e >= 256
ElemLen(e) == IF IsRun(e) THEN AddUSize(<<Limb - 1, Limb - 3>>, USize(e - 256))
              ELSE USize(1)

\* str::as_bytes().len()
RECURSIVE ByteLen(_)
ByteLen(s) == IF s = <<>> THEN USize(0)
              ELSE AddUSize(ElemLen(Head(s)), ByteLen(Tail(s)))

IsPlain(s) == \A i \in 1..Len(s) : ~IsRun(s[i])

\* char::to_lowercase on the ASCII letters
LowerByte(b) == IF b \in 65..90 THEN b + 32 ELSE b
to_lowercase(s) == [i \in 1..Len(s) |-> LowerByte(s[i])]

\* format!("{}={}", key, value)
format_comment_no_eq(key, value) == key \o value
format_comment(key, value) == key \o EQ \o value

---------------------------------------------------------------------------
(* safe_make_comment_header *)

start == <<3, 118, 111, 114, 98, 105, 115>>
end == 1

MakeErr(at, idx) == [ok |-> FALSE, data |-> <<>>, at |-> at, idx |-> idx]
MakeOk(data) == [ok |-> TRUE, data |-> data, at |-> "none", idx |-> 0]

\* the loop "for comment in header.comment_list.iter()", then the end byte
RECURSIVE write_comments(_, _, _)
write_comments(comment_list, i, new_packet) ==
    IF i > Len(comment_list) THEN MakeOk(Append(new_packet, end))
    ELSE LET commentstring == format_comment(comment_list[i][1], comment_list[i][2])
             comment_len == try_into_u32(ByteLen(commentstring))
         IN IF ~comment_len.ok THEN MakeErr("comment", i)
            ELSE write_comments(comment_list, i + 1,
                     new_packet \o to_le_bytes(comment_len.val) \o commentstring)

safe_make_comment_header_reversed(h) ==
    LET vendor_len == try_into_u32(ByteLen(h.vendor))
        n == Len(h.comment_list)
    IN IF ~vendor_len.ok THEN MakeErr("vendor", 0)
       ELSE write_comments([i \in 1..n |-> h.comment_list[n + 1 - i]], 1,
                start \o to_le_bytes(vendor_len.val) \o h.vendor
                      \o to_le_bytes(USize(n)))

safe_make_comment_header(h) ==
    LET vendor == h.vendor
        vendor_len == try_into_u32(ByteLen(vendor))
    IN IF ~vendor_len.ok THEN MakeErr("vendor", 0)
       ELSE LET comment_nbr == try_into_u32(USize(Len(h.comment_list)))
            IN IF ~comment_nbr.ok THEN MakeErr("count", 0)
               ELSE write_comments(h.comment_list, 1,
                        start \o to_le_bytes(vendor_len.val) \o vendor
                              \o to_le_bytes(comment_nbr.val))

---------------------------------------------------------------------------
(* lewton::header::read_header_comment: the parser of the layout above *)

ReadErr == [ok |-> FALSE, hdr |-> [vendor |-> <<>>, comment_list |-> <<>>]]
ReadOk(vendor, comment_list) ==
    [ok |-> TRUE, hdr |-> [vendor |-> vendor, comment_list |-> comment_list]]

\* whether n more bytes can be read at pos (pos is the index of the next byte)
CanRead(data, pos, n) == n[1] = 0 /\ pos + n[2] - 1 <= Len(data)

\* str::find("="): index of the first '=' or 0
FindEq(s) == IF \E i \in 1..Len(s) : s[i] = 61
             THEN CHOOSE i \in 1..Len(s) : s[i] = 61 /\ \A j \in 1..(i - 1) : s[j] # 61
             ELSE 0

RECURSIVE read_comments(_, _, _, _, _, _)
read_comments(data, pos, i, comment_count, vendor, comment_list) ==
    IF ~LessUSize(USize(i), comment_count)
    THEN \* the framing byte
         IF pos <= Len(data) /\ data[pos] = 1 THEN ReadOk(vendor, comment_list)
         ELSE ReadErr
    ELSE IF ~CanRead(data, pos, USize(4)) THEN ReadErr
    ELSE LET comment_length == from_le_bytes(SubSeq(data, pos, pos + 3))
         IN IF ~CanRead(data, pos + 4, comment_length) THEN ReadErr
            ELSE LET comment == SubSeq(data, pos + 4, pos + 3 + comment_length[2])
                     eq_idx == FindEq(comment)
                 IN IF eq_idx = 0 THEN ReadErr
                    ELSE read_comments(data, pos + 4 + comment_length[2], i + 1,
                             comment_count, vendor,
                             Append(comment_list,
                                    <<SubSeq(comment, 1, eq_idx - 1),
                                      SubSeq(comment, eq_idx + 1, Len(comment))>>))

read_header_comment(data) ==
    IF Len(data) < 7 \/ SubSeq(data, 2, 7) # SubSeq(start, 2, 7) THEN ReadErr
    ELSE IF data[1] # 3 THEN ReadErr
    ELSE IF ~CanRead(data, 8, USize(4)) THEN ReadErr
    ELSE LET vendor_length == from_le_bytes(SubSeq(data, 8, 11))
         IN IF ~CanRead(data, 12, vendor_length) THEN ReadErr
            ELSE LET vendor == SubSeq(data, 12, 11 + vendor_length[2])
                     p == 12 + vendor_length[2]
                 IN IF ~CanRead(data, p, USize(4)) THEN ReadErr
                    ELSE read_comments(data, p + 4, 0,
                             from_le_bytes(SubSeq(data, p, p + 3)), vendor, <<>>)

---------------------------------------------------------------------------
(* VorbisComments for CommentHeader *)

from(vendor, comment_list) == [vendor |-> vendor, comment_list |-> comment_list]

new == [vendor |-> <<>>, comment_list |-> <<>>]

\* Vec::retain / Iterator::filter
RECURSIVE SelectSeq2(_, _, _)
SelectSeq2(s, tag, keep) ==
    IF s = <<>> THEN <<>>
    ELSE LET rest == SelectSeq2(Tail(s), tag, keep)
         IN IF (to_lowercase(Head(s)[1]) = to_lowercase(tag)) = keep
            THEN <<Head(s)>> \o rest ELSE rest

\* String's Ord: bytes, lexicographic
RECURSIVE StrLess(_, _)
StrLess(a, b) ==
    IF b = <<>> THEN FALSE
    ELSE IF a = <<>> THEN TRUE
    ELSE IF Head(a) # Head(b) THEN Head(a) < Head(b)
    ELSE StrLess(Tail(a), Tail(b))

\* Vec::sort_unstable: equal strings are indistinguishable, so any sort
RECURSIVE Insert(_, _)
Insert(x, sorted) ==
    IF sorted = <<>> THEN <<x>>
    ELSE IF StrLess(Head(sorted), x) THEN <<Head(sorted)>> \o Insert(x, Tail(sorted))
    ELSE <<x>> \o sorted

RECURSIVE sort_unstable(_)
sort_unstable(names) ==
    IF names = <<>> THEN <<>> ELSE Insert(Head(names), sort_unstable(Tail(names)))

\* Vec::dedup: drops an element equal to the one before it
RECURSIVE dedup(_)
dedup(names) ==
    IF Len(names) < 2 THEN names
    ELSE IF names[1] = names[2] THEN dedup(Tail(names))
    ELSE <<Head(names)>> \o dedup(Tail(names))

get_tag_names(self) ==
    LET names == [i \in 1..Len(self.comment_list) |->
                      to_lowercase(self.comment_list[i][1])]
    IN dedup(sort_unstable(names))

get_tag_multi_stored_case(self, tag) ==
    LET m == SelectSeq(self.comment_list,
                       LAMBDA comment : comment[1] = to_lowercase(tag))
    IN [i \in 1..Len(m) |-> m[i][2]]

get_tag_multi(self, tag) ==
    LET m == SelectSeq2(self.comment_list, tag, TRUE)
    IN [i \in 1..Len(m) |-> m[i][2]]

\* Option<String>: <<>> is None, <<v>> is Some(v)
get_tag_single(self, tag) ==
    LET tags == get_tag_multi(self, tag)
    IN IF Len(tags) > 0 THEN <<tags[1]>> ELSE <<>>

clear_tag_stored_case(self, tag) ==
    [self EXCEPT !.comment_list =
         SelectSeq(@, LAMBDA comment : comment[1] # to_lowercase(tag))]

clear_tag(self, tag) ==
    [self EXCEPT !.comment_list = SelectSeq2(self.comment_list, tag, FALSE)]

add_tag_single_verbatim(self, tag, value) ==
    [self EXCEPT !.comment_list = Append(@, <<tag, value>>)]
add_tag_single(self, tag, value) ==
    [self EXCEPT !.comment_list = Append(@, <<to_lowercase(tag), value>>)]

RECURSIVE add_tag_multi_reversed(_, _, _)
add_tag_multi_reversed(self, tag, values) ==
    IF values = <<>> THEN self
    ELSE [add_tag_multi_reversed(self, tag, Tail(values))
              EXCEPT !.comment_list = Append(@, <<to_lowercase(tag), Head(values)>>)]

RECURSIVE add_tag_multi(_, _, _)
add_tag_multi(self, tag, values) ==
    IF values = <<>> THEN self
    ELSE add_tag_multi(
             [self EXCEPT !.comment_list = Append(@, <<to_lowercase(tag), Head(values)>>)],
             tag, Tail(values))

get_vendor(self) == self.vendor

set_vendor(self, vend) == [self EXCEPT !.vendor = vend]

---------------------------------------------------------------------------
(* make_comment_header: safe_make_comment_header(header).unwrap() *)

make_comment_header(h) ==
    LET r == safe_make_comment_header(h)
    IN [panicked |-> ~r.ok, data |-> r.data]

---------------------------------------------------------------------------
(* safe_read_comment_header over the packets a PacketReader yields.       *)
(* read_packet_expected fails when the packets run out.                    *)

\* index of the first packet from position i on with the given serial, or 0
RECURSIVE NextOfSerial(_, _, _)
NextOfSerial(packets, i, stream_serial) ==
    IF i > Len(packets) THEN 0
    ELSE IF packets[i].stream_serial = stream_serial THEN i
    ELSE NextOfSerial(packets, i + 1, stream_serial)

safe_read_comment_header_second_packet(packets) ==
    IF Len(packets) < 2 THEN ReadErr
    ELSE read_header_comment(packets[2].data)

safe_read_comment_header(packets) ==
    IF Len(packets) < 2 THEN ReadErr
    ELSE LET stream_serial == packets[1].stream_serial
             k == NextOfSerial(packets, 2, stream_serial)
         IN IF k = 0 THEN ReadErr
            ELSE read_header_comment(packets[k].data)

---------------------------------------------------------------------------
(* safe_replace_comment_header *)

\* PacketWriteEndInfo chosen for a packet
EndInfo_page_first(packet) ==
    IF packet.last_in_page THEN "EndPage"
    ELSE IF packet.last_in_stream THEN "EndStream"
    ELSE "NormalPacket"

EndInfo(packet) ==
    IF packet.last_in_stream THEN "EndStream"
    ELSE IF packet.last_in_page THEN "EndPage"
    ELSE "NormalPacket"

\* whether packet.data is assigned new_comment_data
ShouldReplace_ignoring_done(done, packet) == read_header_comment(packet.data).ok
ShouldReplace(done, packet) == ~done /\ read_header_comment(packet.data).ok

IsLastPacket_any_end_of_stream(packet) == packet.last_in_stream
IsLastPacket_end_of_page(packet) == packet.last_in_page
IsLastPacket(packet) == packet.last_in_stream /\ packet.last_in_page

\* the arguments of writer.write_packet
WritePacket_zero_absgp(data, packet, inf) ==
    [data |-> data, stream_serial |-> packet.stream_serial, inf |-> inf,
     absgp_page |-> 0]
WritePacket(data, packet, inf) ==
    [data |-> data, stream_serial |-> packet.stream_serial, inf |-> inf,
     absgp_page |-> packet.absgp_page]

---------------------------------------------------------------------------
(* Bounds and input sets *)

MaxPackets == 3
MaxComments == 2
MaxStoreLen == 3
MaxMulti == 2

RECURSIVE SeqsUpTo(_, _)
SeqsUpTo(S, n) ==
    IF n = 0 THEN {<<>>}
    ELSE LET shorter == SeqsUpTo(S, n - 1)
         IN shorter \cup {Append(q, x) : q \in shorter, x \in S}

\* one packet: an identification header, for which read_header_comment fails
IdentData == <<1, 118, 111, 114, 98, 105, 115, 0>>
OldHeader == from(<<88>>, << <<<<116>>, <<65>>>> >>)
OldCommentData == safe_make_comment_header(OldHeader).data
PacketData == {IdentData, OldCommentData}
Serials == {1, 2}
\* the granule position of a packet's page: 9 for a packet that ends its
\* page, 0 for one inside a page
GranuleOf(last_in_page) == IF last_in_page THEN 9 ELSE 0
Packets == {[data |-> d, stream_serial |-> s, last_in_page |-> lp,
             last_in_stream |-> ls, absgp_page |-> GranuleOf(lp)] :
            d \in PacketData, s \in Serials, lp \in BOOLEAN, ls \in BOOLEAN}
Containers == SeqsUpTo(Packets, MaxPackets)

\* containers handed to safe_read_comment_header: a second comment header
\* tells the packets apart; the reader never looks at the page flags
OtherHeader == from(<<89>>, <<>>)
OtherCommentData == safe_make_comment_header(OtherHeader).data
ReadPackets == {[data |-> d, stream_serial |-> s, last_in_page |-> FALSE,
                 last_in_stream |-> FALSE, absgp_page |-> 0] :
                    d \in PacketData \cup {OtherCommentData}, s \in Serials}
ReadContainers == SeqsUpTo(ReadPackets, MaxPackets)

RunElems == 256..259
BigStrings == {<<e>> : e \in RunElems}

\* the new_header arguments: two that encode, one of them with '=' in a
\* key, and one whose vendor has 2^32 bytes
NewHeaders == {from(<<89>>, << <<<<116>>, <<66>>>>, <<<<97>>, <<67>>>> >>),
               from(<<89>>, << <<<<61>>, <<66>>>> >>),
               from(<<259>>, <<>>)}

\* keys and values: empty, "a", "=", "a="
CodecStrings == {<<>>, <<97>>, <<61>>, <<97, 61>>}
CodecVendors == {<<>>, <<118>>}
PlainHeaders == {from(v, l) : v \in CodecVendors,
                              l \in SeqsUpTo(CodecStrings \X CodecStrings, MaxComments)}
BigHeaders == {from(v, l) : v \in CodecVendors \cup BigStrings,
                            l \in SeqsUpTo({<<>>, <<97>>} \X ({<<97>>} \cup BigStrings),
                                           MaxComments)}
CodecHeaders == PlainHeaders \cup BigHeaders

\* tag arguments: "A", "b", "Ab"
TagArgs == {<<65>>, <<98>>, <<65, 98>>}
TagValues == {<<>>, <<86>>}
TagVendors == {<<>>, <<118>>}

\* stores handed to from(): keys "A" and "aB", stored as given
FromKeys == {<<65>>, <<97, 66>>}
FromStores == {from(v, l) : v \in TagVendors,
                            l \in SeqsUpTo(FromKeys \X TagValues, MaxStoreLen)}

NoOp == [op |-> "none", tag |-> <<>>, values |-> <<>>, ret |-> <<>>]

---------------------------------------------------------------------------
(* Initial states *)

RewriteIdle ==
    /\ f_in = <<>> /\ new_header = new /\ pc = "idle" /\ rpos = 0
    /\ header_done = FALSE /\ new_comment_data = <<>> /\ f_out = <<>>
    /\ f_out_pos = 0 /\ result = "none" /\ exit_by = "none" /\ replaced = <<>>

CodecIdle ==
    /\ header = new /\ cpc = "idle" /\ made = MakeOk(<<>>) /\ decoded = ReadErr

TagIdle == store = new /\ prev_store = new /\ last_op = NoOp

Init ==
    /\ f_in \in Containers
    /\ new_header \in NewHeaders
    /\ pc = "call" /\ rpos = 0 /\ header_done = FALSE
    /\ new_comment_data = <<>> /\ f_out = <<>> /\ f_out_pos = 0
    /\ result = "none" /\ exit_by = "none" /\ replaced = <<>>
    /\ CodecIdle /\ TagIdle

InitCodec ==
    /\ header \in CodecHeaders
    /\ cpc = "init" /\ made = MakeOk(<<>>) /\ decoded = ReadErr
    /\ RewriteIdle /\ TagIdle

InitTags == TagIdle /\ RewriteIdle /\ CodecIdle

InitFrom ==
    /\ store \in FromStores /\ prev_store = store /\ last_op = NoOp
    /\ RewriteIdle /\ CodecIdle

InitRead ==
    /\ f_in \in ReadContainers
    /\ new_header = new /\ pc = "read_call" /\ rpos = 0
    /\ header_done = FALSE /\ new_comment_data = <<>> /\ f_out = <<>>
    /\ f_out_pos = 0 /\ result = "none" /\ exit_by = "none" /\ replaced = <<>>
    /\ CodecIdle /\ TagIdle

---------------------------------------------------------------------------
(* safe_replace_comment_header, step by step *)

\* lines 209-217: encode the new header, set up reader, writer, header_done
Call ==
    /\ pc = "call"
    /\ LET r == make_comment_header(new_header)
       IN IF r.panicked
          THEN pc' = "panicked" /\ UNCHANGED new_comment_data
          ELSE pc' = "loop" /\ new_comment_data' = r.data
    /\ header_done' = FALSE
    /\ UNCHANGED <<f_in, new_header, rpos, f_out, f_out_pos, result, exit_by,
                   replaced, codecVars, tagVars>>

\* one iteration with read_packet() = Ok(Some(packet))
LoopPacket_drop_replaced ==
    /\ pc = "loop" /\ rpos < Len(f_in)
    /\ LET packet == f_in[rpos + 1]
           inf == EndInfo(packet)
           subst == ShouldReplace(header_done, packet)
       IN /\ rpos' = rpos + 1
          /\ header_done' = (header_done \/ subst)
          /\ replaced' = IF subst THEN Append(replaced, rpos + 1) ELSE replaced
          /\ IF subst THEN UNCHANGED <<f_out, f_out_pos>>
             ELSE /\ f_out' = Append(f_out, WritePacket(packet.data, packet, inf))
                  /\ f_out_pos' = f_out_pos + 1
          /\ IF IsLastPacket(packet)
             THEN pc' = "rewind" /\ exit_by' = "terminal"
             ELSE UNCHANGED <<pc, exit_by>>
    /\ UNCHANGED <<f_in, new_header, new_comment_data, result, codecVars, tagVars>>
LoopPacket ==
    /\ pc = "loop" /\ rpos < Len(f_in)
    /\ LET packet == f_in[rpos + 1]
           inf == EndInfo(packet)
           subst == ShouldReplace(header_done, packet)
           data == IF subst THEN new_comment_data ELSE packet.data
       IN /\ rpos' = rpos + 1
          /\ header_done' = (header_done \/ subst)
          /\ replaced' = IF subst THEN Append(replaced, rpos + 1) ELSE replaced
          /\ f_out' = Append(f_out, WritePacket(data, packet, inf))
          /\ f_out_pos' = f_out_pos + 1
          /\ IF IsLastPacket(packet)
             THEN pc' = "rewind" /\ exit_by' = "terminal"
             ELSE UNCHANGED <<pc, exit_by>>
    /\ UNCHANGED <<f_in, new_header, new_comment_data, result, codecVars, tagVars>>

\* one iteration with read_packet() = Ok(None)
LoopEnd ==
    /\ pc = "loop" /\ rpos = Len(f_in)
    /\ pc' = "rewind" /\ exit_by' = "eof"
    /\ UNCHANGED <<f_in, new_header, rpos, header_done, new_comment_data, f_out,
                   f_out_pos, result, replaced, codecVars, tagVars>>

\* one iteration with read_packet() = Err(error)
LoopReadError_propagated ==
    /\ pc = "loop" /\ rpos = Len(f_in)
    /\ pc' = "returned" /\ exit_by' = "read_error" /\ result' = "Err"
    /\ UNCHANGED <<f_in, new_header, rpos, header_done, new_comment_data, f_out,
                   f_out_pos, replaced, codecVars, tagVars>>
LoopReadError ==
    /\ pc = "loop" /\ rpos = Len(f_in)
    /\ pc' = "rewind" /\ exit_by' = "read_error"
    /\ UNCHANGED <<f_in, new_header, rpos, header_done, new_comment_data, f_out,
                   f_out_pos, result, replaced, codecVars, tagVars>>

\* lines 260-261: f_out.seek(Start(0)), Ok(f_out)
Rewind_no_seek ==
    /\ pc = "rewind"
    /\ result' = "Ok" /\ pc' = "returned"
    /\ UNCHANGED <<f_in, new_header, rpos, header_done, new_comment_data, f_out,
                   f_out_pos, exit_by, replaced, codecVars, tagVars>>
Rewind ==
    /\ pc = "rewind"
    /\ f_out_pos' = 0 /\ result' = "Ok" /\ pc' = "returned"
    /\ UNCHANGED <<f_in, new_header, rpos, header_done, new_comment_data, f_out,
                   exit_by, replaced, codecVars, tagVars>>

Next == Call \/ LoopPacket \/ LoopEnd \/ LoopReadError \/ Rewind

Spec == Init /\ [][Next]_vars

---------------------------------------------------------------------------
(* The codec: encode a header, then decode the bytes *)

Make ==
    /\ cpc = "init"
    /\ made' = safe_make_comment_header(header)
    /\ cpc' = "made"
    /\ UNCHANGED <<header, decoded, rewriteVars, tagVars>>

\* the content of a run is not represented: only plain bytes are decoded
Read ==
    /\ cpc = "made" /\ made.ok /\ IsPlain(made.data)
    /\ decoded' = read_header_comment(made.data)
    /\ cpc' = "read"
    /\ UNCHANGED <<header, made, rewriteVars, tagVars>>

NextCodec == Make \/ Read

SpecCodec == InitCodec /\ [][NextCodec]_vars

---------------------------------------------------------------------------
(* The tag store, from new() *)

AddTagSingle ==
    \E tag \in TagArgs, value \in TagValues :
        /\ Len(store.comment_list) < MaxStoreLen
        /\ store' = add_tag_single(store, tag, value)
        /\ last_op' = [op |-> "add_tag_single", tag |-> tag,
                       values |-> <<value>>, ret |-> <<>>]
        /\ prev_store' = store
        /\ UNCHANGED <<rewriteVars, codecVars>>

AddTagMulti ==
    \E tag \in TagArgs, values \in SeqsUpTo(TagValues, MaxMulti) :
        /\ Len(store.comment_list) + Len(values) <= MaxStoreLen
        /\ store' = add_tag_multi(store, tag, values)
        /\ last_op' = [op |-> "add_tag_multi", tag |-> tag,
                       values |-> values, ret |-> <<>>]
        /\ prev_store' = store
        /\ UNCHANGED <<rewriteVars, codecVars>>

ClearTag ==
    \E tag \in TagArgs :
        /\ store' = clear_tag(store, tag)
        /\ last_op' = [op |-> "clear_tag", tag |-> tag, values |-> <<>>, ret |-> <<>>]
        /\ prev_store' = store
        /\ UNCHANGED <<rewriteVars, codecVars>>

SetVendor ==
    \E vend \in TagVendors :
        /\ store' = set_vendor(store, vend)
        /\ last_op' = [op |-> "set_vendor", tag |-> vend, values |-> <<>>,
                       ret |-> <<>>]
        /\ prev_store' = store
        /\ UNCHANGED <<rewriteVars, codecVars>>

GetTagMulti ==
    \E tag \in TagArgs :
        /\ last_op' = [op |-> "get_tag_multi", tag |-> tag, values |-> <<>>,
                       ret |-> get_tag_multi(store, tag)]
        /\ prev_store' = store
        /\ UNCHANGED <<store, rewriteVars, codecVars>>

GetTagSingle ==
    \E tag \in TagArgs :
        /\ last_op' = [op |-> "get_tag_single", tag |-> tag, values |-> <<>>,
                       ret |-> get_tag_single(store, tag)]
        /\ prev_store' = store
        /\ UNCHANGED <<store, rewriteVars, codecVars>>

GetVendor ==
    /\ last_op' = [op |-> "get_vendor", tag |-> <<>>, values |-> <<>>,
                   ret |-> <<get_vendor(store)>>]
    /\ prev_store' = store
    /\ UNCHANGED <<store, rewriteVars, codecVars>>

GetTagNames ==
    /\ last_op' = [op |-> "get_tag_names", tag |-> <<>>, values |-> <<>>,
                   ret |-> get_tag_names(store)]
    /\ prev_store' = store
    /\ UNCHANGED <<store, rewriteVars, codecVars>>

NextTags == AddTagSingle \/ AddTagMulti \/ ClearTag \/ SetVendor
            \/ GetTagMulti \/ GetTagSingle \/ GetVendor \/ GetTagNames

SpecTags == InitTags /\ [][NextTags]_vars

\* the same calls on a store built by from(), whose keys are kept as given
SpecFrom == InitFrom /\ [][NextTags]_vars

---------------------------------------------------------------------------
(* safe_read_comment_header as one call on a container *)

SafeReadCommentHeader ==
    /\ pc = "read_call"
    /\ LET r == safe_read_comment_header(f_in)
       IN /\ decoded' = r
          /\ result' = IF r.ok THEN "Ok" ELSE "Err"
    /\ pc' = "read_returned"
    /\ UNCHANGED <<f_in, new_header, rpos, header_done, new_comment_data,
                   f_out, f_out_pos, exit_by, replaced, header, cpc, made,
                   tagVars>>

NextRead == SafeReadCommentHeader

SpecRead == InitRead /\ [][NextRead]_vars

---------------------------------------------------------------------------
(* Helpers of the properties *)

Min(S) == CHOOSE x \in S : \A y \in S : x <= y

Range(q) == {q[i] : i \in 1..Len(q)}

\* the read indexes, among the packets read so far, whose payload decodes
Decodable == {i \in 1..rpos : read_header_comment(f_in[i].data).ok}

\* what write_packet receives for input packet p when its payload is d
Emitted(p, d) ==
    /\ d.data = p.data
    /\ d.stream_serial = p.stream_serial
    /\ d.absgp_page = p.absgp_page
    /\ d.inf = "EndStream" <=> p.last_in_stream
    /\ d.inf = "EndPage" <=> (p.last_in_page /\ ~p.last_in_stream)
    /\ d.inf = "NormalPacket" <=> (~p.last_in_page /\ ~p.last_in_stream)

\* the header survives encode then decode
RoundTrips(h) ==
    LET m == safe_make_comment_header(h)
    IN m.ok /\ IsPlain(m.data)
            /\ read_header_comment(m.data) = ReadOk(h.vendor, h.comment_list)

KeysHaveNoEq(h) ==
    \A i \in 1..Len(h.comment_list) : FindEq(h.comment_list[i][1]) = 0

U32Max == <<Limb - 1, Limb - 1>>
Exceeds(u) == LessUSize(U32Max, u)

CommentLen(c) == AddUSize(ByteLen(c[1]), AddUSize(USize(1), ByteLen(c[2])))

\* index in the encoded packet of the length field of comment i
RECURSIVE FieldPos(_, _)
FieldPos(h, i) ==
    IF i = 1 THEN 7 + 4 + Len(h.vendor) + 4 + 1
    ELSE FieldPos(h, i - 1) + 4 + Len(h.comment_list[i - 1][1]) + 1
                            + Len(h.comment_list[i - 1][2])

---------------------------------------------------------------------------
(* C1: replace then read.  Whenever safe_read_comment_header succeeds on   *)
(* the input and the new header encodes and survives the codec round trip, *)
(* safe_replace_comment_header returns Ok and safe_read_comment_header of  *)
(* its output returns exactly the new header.                              *)
C1_ReplaceThenRead ==
    (safe_read_comment_header(f_in).ok /\ RoundTrips(new_header))
        => /\ pc # "panicked"
           /\ pc = "returned" =>
                  /\ result = "Ok"
                  /\ safe_read_comment_header(f_out)
                         = ReadOk(new_header.vendor, new_header.comment_list)

(* C2: frame preservation.  Every emitted packet carries the stream serial *)
(* and granule position of the input packet it came from and the boundary  *)
(* classification of that packet's flags; at most one emitted packet       *)
(* differs from its input packet in payload, and it is the substituted one.*)
C2_FramePreserved ==
    /\ Len(f_out) <= Len(f_in)
    /\ \A i \in 1..Len(f_out) :
           /\ Emitted([f_in[i] EXCEPT !.data = f_out[i].data], f_out[i])
           /\ i \notin Range(replaced) => f_out[i].data = f_in[i].data
    /\ Cardinality({i \in 1..Len(f_out) : f_out[i].data # f_in[i].data}) <= 1

C2_Witness ==
    /\ pc = "returned" /\ Len(f_out) = 3 /\ replaced = <<2>>
    /\ f_out[2].data # f_in[2].data
    /\ f_in[2].stream_serial = 2 /\ f_in[2].absgp_page = 9
    /\ f_out[2].inf = "EndPage" /\ f_out[3].inf = "EndStream"

(* C3: exactly one replacement.  When some packet read so far decodes as a *)
(* comment block, exactly one emitted packet has been substituted with the *)
(* encoded new header: the first that decodes, in read order.  Every later *)
(* packet that decodes is emitted with its own payload.  When none         *)
(* decodes, nothing is substituted.                                        *)
C3_ExactlyOneReplaced ==
    pc \in {"loop", "rewind", "returned"} =>
        LET dec == Decodable
        IN /\ Len(f_out) = rpos
           /\ IF dec = {} THEN replaced = <<>>
              ELSE LET first == Min(dec)
                   IN /\ replaced = <<first>>
                      /\ f_out[first].data = new_comment_data
                      /\ \A i \in dec \ {first} : f_out[i].data = f_in[i].data

C3_Witness ==
    /\ pc = "returned" /\ rpos = 3 /\ Decodable = {2, 3}
    /\ replaced = <<2>> /\ f_out[3].data = OldCommentData
    /\ f_out[2].data # OldCommentData

\* index of the first packet flagged last-in-page and last-in-stream, or
\* the number of packets when there is none
FirstTerminal(packets) ==
    IF \E i \in 1..Len(packets) : packets[i].last_in_page /\ packets[i].last_in_stream
    THEN Min({i \in 1..Len(packets) :
                  packets[i].last_in_page /\ packets[i].last_in_stream})
    ELSE Len(packets)

NoneDecodes == \A i \in 1..Len(f_in) : ~read_header_comment(f_in[i].data).ok

(* C4 as claimed: when no packet of the input decodes as a comment block   *)
(* and no read fails, the call returns Ok and the emitted packets are the  *)
(* entire input, packet for packet.                                        *)
C4_CopyThroughEntire ==
    (pc = "returned" /\ NoneDecodes /\ exit_by # "read_error")
        => /\ result = "Ok"
           /\ Len(f_out) = Len(f_in)
           /\ \A i \in 1..Len(f_out) : Emitted(f_in[i], f_out[i])

(* C4 as amended: when no packet of the input decodes as a comment block   *)
(* and no read fails, the call returns Ok and the emitted packets are the  *)
(* input up to and including its first packet flagged both last-in-page    *)
(* and last-in-stream (the entire input when there is none), packet for    *)
(* packet.                                                                 *)
C4_CopyThroughToTerminal ==
    (pc = "returned" /\ NoneDecodes /\ exit_by # "read_error")
        => /\ result = "Ok"
           /\ Len(f_out) = FirstTerminal(f_in)
           /\ \A i \in 1..Len(f_out) : Emitted(f_in[i], f_out[i])

C4_Witness ==
    /\ pc = "returned" /\ NoneDecodes /\ exit_by = "terminal"
    /\ Len(f_in) = 3 /\ Len(f_out) = 2
    /\ f_in[1].last_in_stream /\ ~f_in[1].last_in_page

(* C5 as claimed: decoding the bytes safe_make_comment_header produces     *)
(* yields the original header, for every header that encodes, also when a  *)
(* key contains '='.                                                       *)
C5_RoundTripAnyKey ==
    cpc = "read" => decoded = ReadOk(header.vendor, header.comment_list)

(* C5 as amended: decoding the bytes safe_make_comment_header produces     *)
(* yields the original header (same vendor, same pairs, same order) for    *)
(* every header that encodes and has no '=' in any key; a key or value may *)
(* be empty and a value may contain '='.                                   *)
C5_RoundTrip ==
    (cpc = "read" /\ KeysHaveNoEq(header))
        => decoded = ReadOk(header.vendor, header.comment_list)

C5_Witness ==
    /\ cpc = "read" /\ KeysHaveNoEq(header) /\ decoded.ok
    /\ header.vendor = <<118>>
    /\ header.comment_list = << <<<<>>, <<61>>>>, <<<<97>>, <<>>>> >>

(* C6: when the new header cannot be encoded, safe_replace_comment_header  *)
(* returns an error value: it never panics and produces no output.         *)
C6_EncodeFailureReturned ==
    (pc # "call" /\ ~safe_make_comment_header(new_header).ok)
        => pc = "returned" /\ result = "Err" /\ f_out = <<>>

(* C7: soft stop.  When a read fails after k packets were read and         *)
(* written, the call returns Ok and its output is exactly those k packets  *)
(* in order, the substituted one with the new payload; nothing is dropped  *)
(* and nothing more is written.                                            *)
C7_SoftStop ==
    (exit_by = "read_error")
        => LET dec == Decodable
               first == IF dec = {} THEN 0 ELSE Min(dec)
           IN /\ pc \in {"rewind", "returned"}
              /\ pc = "returned" => result = "Ok"
              /\ Len(f_out) = rpos
              /\ \A i \in 1..rpos :
                     Emitted([f_in[i] EXCEPT !.data =
                                  IF i = first THEN new_comment_data
                                  ELSE f_in[i].data],
                             f_out[i])

C7_Witness ==
    /\ pc = "returned" /\ exit_by = "read_error" /\ result = "Ok"
    /\ rpos = 2 /\ Len(f_out) = 2 /\ replaced = <<2>>

(* C8: a packet is substituted only if its stream serial is the serial of  *)
(* the first packet of the input.                                          *)
C8_OnlyFirstSerialReplaced ==
    \A j \in 1..Len(replaced) :
        f_in[replaced[j]].stream_serial = f_in[1].stream_serial

(* C9: safe_make_comment_header fails exactly when the vendor length, the  *)
(* number of entries or the length of some "key=value" exceeds 2^32 - 1.   *)
(* The first such quantity in layout order is where it returns; an error   *)
(* carries no bytes; on Ok every length field holds the true length.       *)
C9_EncodeOverflow ==
    cpc # "init" =>
        LET n == Len(header.comment_list)
            bad == {i \in 1..n : Exceeds(CommentLen(header.comment_list[i]))}
        IN /\ made.ok <=> ~(Exceeds(ByteLen(header.vendor)) \/ Exceeds(USize(n))
                              \/ bad # {})
           /\ ~made.ok =>
                  /\ made.data = <<>>
                  /\ IF Exceeds(ByteLen(header.vendor)) THEN made.at = "vendor"
                     ELSE IF Exceeds(USize(n)) THEN made.at = "count"
                     ELSE made.at = "comment" /\ made.idx = Min(bad)
           /\ made.ok =>
                  /\ from_le_bytes(SubSeq(made.data, 8, 11)) = ByteLen(header.vendor)
                  /\ \A i \in 1..n :
                         from_le_bytes(SubSeq(made.data, FieldPos(header, i),
                                              FieldPos(header, i) + 3))
                             = CommentLen(header.comment_list[i])

C9_Witness ==
    /\ cpc = "made" /\ ~made.ok /\ made.at = "comment" /\ made.idx = 2
    /\ CommentLen(header.comment_list[1]) = U32Max
    /\ ~Exceeds(ByteLen(header.vendor))

(* C10: from new(), after any sequence of add_tag_single, add_tag_multi,   *)
(* clear_tag and set_vendor calls, every stored key is lowercase.          *)
C10_KeysLowercase ==
    \A i \in 1..Len(store.comment_list) :
        \A j \in 1..Len(store.comment_list[i][1]) :
            store.comment_list[i][1][j] \notin 65..90

C10_Witness ==
    /\ last_op.op = "add_tag_multi" /\ last_op.tag = <<65, 98>>
    /\ Len(store.comment_list) = 3
    /\ store.comment_list[3][1] = <<97, 98>>
    /\ store.comment_list[2][1] = <<97, 98>>
    /\ store.comment_list[1][1] = <<97>>

(* C11: stream selection on read.  safe_read_comment_header returns the   *)
(* header decoded from the first packet after the initial one whose serial *)
(* equals the initial packet's serial, whatever packets of other serials   *)
(* lie between; when the container has no such packet, or that packet does *)
(* not decode, it returns an error and no header of any other packet.      *)
C11_StreamSelection ==
    pc = "read_returned" =>
        LET same == IF f_in = <<>> THEN {}
                    ELSE {i \in 2..Len(f_in) :
                              f_in[i].stream_serial = f_in[1].stream_serial}
            sel == IF same = {} THEN ReadErr
                   ELSE read_header_comment(f_in[Min(same)].data)
        IN /\ decoded = sel
           /\ result = "Ok" <=> sel.ok
           /\ result = "Err" <=> ~sel.ok

\* a packet of another serial that decodes is skipped: the header returned
\* is the one of the next packet of the initial serial
C11_Witness ==
    /\ pc = "read_returned" /\ result = "Ok" /\ Len(f_in) = 3
    /\ f_in[2].stream_serial # f_in[1].stream_serial
    /\ f_in[2].data = OldCommentData
    /\ f_in[3].data = OtherCommentData
    /\ decoded = ReadOk(OtherHeader.vendor, OtherHeader.comment_list)

(* C12: read failures of the rewrite.  A failure of the read of the first  *)
(* packet makes safe_replace_comment_header return an error; a failure of  *)
(* a later read ends the rewrite and the call still returns Ok.            *)
C12_InitialReadHardFails ==
    (pc = "returned" /\ exit_by = "read_error")
        => /\ rpos = 0 => result = "Err"
           /\ rpos > 0 => result = "Ok"

\* byte length of the entries of a comment list as the layout counts them
RECURSIVE EntriesLen(_)
EntriesLen(list) ==
    IF list = <<>> THEN USize(0)
    ELSE AddUSize(AddUSize(USize(4), CommentLen(Head(list))),
                  EntriesLen(Tail(list)))

(* C13: encoded layout.  For every header that encodes, the bytes are the  *)
(* signature (byte 3 then "vorbis"), the vendor length as 4 bytes little   *)
(* endian, the vendor, the number of entries as 4 bytes little endian,     *)
(* then per entry in order the length of "key=value" as 4 bytes little     *)
(* endian followed by the bytes of key, '=' and value, then one byte 1.    *)
(* The total length is 7 + 4 + |vendor| + 4 + sum(4 + |key| + 1 + |value|) *)
(* + 1 and the count field equals the number of entries.                   *)
C13_EncodedLayout ==
    (cpc # "init" /\ made.ok) =>
        LET d == made.data
            v == header.vendor
            n == Len(header.comment_list)
        IN /\ SubSeq(d, 1, 7) = <<3, 118, 111, 114, 98, 105, 115>>
           /\ from_le_bytes(SubSeq(d, 8, 11)) = ByteLen(v)
           /\ SubSeq(d, 12, 11 + Len(v)) = v
           /\ from_le_bytes(SubSeq(d, 12 + Len(v), 15 + Len(v))) = USize(n)
           /\ \A i \in 1..n :
                  LET c == header.comment_list[i]
                      p == FieldPos(header, i)
                  IN /\ from_le_bytes(SubSeq(d, p, p + 3)) = CommentLen(c)
                     /\ SubSeq(d, p + 4, p + 3 + Len(c[1])) = c[1]
                     /\ d[p + 4 + Len(c[1])] = 61
                     /\ SubSeq(d, p + 5 + Len(c[1]),
                               p + 4 + Len(c[1]) + Len(c[2])) = c[2]
           /\ Len(d) = FieldPos(header, n + 1)
           /\ d[Len(d)] = 1
           /\ ByteLen(d) = AddUSize(USize(7 + 4), AddUSize(ByteLen(v),
                               AddUSize(USize(4),
                                   AddUSize(EntriesLen(header.comment_list),
                                            USize(1)))))

C13_Witness ==
    /\ cpc = "made" /\ made.ok
    /\ header.vendor = <<118>>
    /\ header.comment_list = << <<<<97>>, <<61>>>>, <<<<97, 61>>, <<>>>> >>
    /\ Len(made.data) = 31

\* indexes of the entries of a store whose key equals tag, case ignored
Matching(self, tag) ==
    {i \in 1..Len(self.comment_list) :
         to_lowercase(self.comment_list[i][1]) = to_lowercase(tag)}

\* the k-th smallest member of a set of indexes
Kth(S, k) == CHOOSE i \in S : Cardinality({j \in S : j <= i}) = k

(* C14: case-insensitive lookup.  On every store, also one built by from() *)
(* with mixed-case keys, get_tag_multi(tag) returns exactly the values of  *)
(* the entries whose lowercased key equals the lowercased tag, in storage  *)
(* order; get_tag_single(tag) returns the first of them, or none when      *)
(* there is none; neither call changes the store.                          *)
C14_CaseInsensitiveLookup ==
    LET M == Matching(store, last_op.tag)
    IN /\ last_op.op = "get_tag_multi" =>
              /\ store = prev_store
              /\ Len(last_op.ret) = Cardinality(M)
              /\ \A k \in 1..Cardinality(M) :
                     last_op.ret[k] = store.comment_list[Kth(M, k)][2]
       /\ last_op.op = "get_tag_single" =>
              /\ store = prev_store
              /\ last_op.ret = IF M = {} THEN <<>>
                               ELSE <<store.comment_list[Min(M)][2]>>

\* a mixed-case key given to from() and a key added later both match "Ab"
C14_Witness ==
    /\ last_op.op = "get_tag_multi" /\ last_op.tag = <<65, 98>>
    /\ store.comment_list = << <<<<97, 66>>, <<86>>>>, <<<<65>>, <<>>>>,
                               <<<<97, 98>>, <<>>>> >>
    /\ last_op.ret = << <<86>>, <<>> >>

\* the spellings of a tag that differ in the case of its letters only
CasingsOf(tag) ==
    {c \in [1..Len(tag) -> {65, 66, 97, 98}] : to_lowercase(c) = to_lowercase(tag)}

(* C15: clear_tag(tag) removes every entry whose lowercased key equals the *)
(* lowercased tag and nothing else: the remaining entries are the other    *)
(* ones, in their original relative order with their keys and values, the  *)
(* vendor is unchanged, and get_tag_multi is then empty for every casing   *)
(* of the tag.                                                             *)
C15_ClearTag ==
    last_op.op = "clear_tag" =>
        LET before == prev_store.comment_list
            K == (1..Len(before)) \ Matching(prev_store, last_op.tag)
        IN /\ store.vendor = prev_store.vendor
           /\ Len(store.comment_list) = Cardinality(K)
           /\ \A k \in 1..Cardinality(K) :
                  store.comment_list[k] = before[Kth(K, k)]
           /\ \A c \in CasingsOf(last_op.tag) : get_tag_multi(store, c) = <<>>

\* entries stored as "aB" and "ab" go, the entries between and after stay
C15_Witness ==
    /\ last_op.op = "clear_tag" /\ last_op.tag = <<65, 98>>
    /\ prev_store.vendor = <<118>>
    /\ prev_store.comment_list = << <<<<97, 66>>, <<86>>>>, <<<<65>>, <<>>>>,
                                    <<<<97, 98>>, <<>>>> >>
    /\ store.comment_list = << <<<<65>>, <<>>>> >>

\* a sorts strictly before b, byte by byte
LexLess(a, b) ==
    \E k \in 1..(Len(b)) :
        /\ k <= Len(a) + 1
        /\ \A j \in 1..(k - 1) : a[j] = b[j]
        /\ k = Len(a) + 1 \/ a[k] < b[k]

(* C16: add_tag_multi(tag, values) appends one entry per value at the end, *)
(* each with the lowercased tag as key, in the given order and with the    *)
(* value as given, and leaves the earlier entries in place.  Afterwards    *)
(* get_tag_multi(tag) is its previous result followed by the values, and   *)
(* get_tag_names() is sorted ascending, has no duplicates and, when values *)
(* is not empty, contains the lowercased tag exactly once.                 *)
C16_AddTagMulti ==
    last_op.op = "add_tag_multi" =>
        LET before == prev_store.comment_list
            n == Len(before)
            values == last_op.values
            names == get_tag_names(store)
        IN /\ store.vendor = prev_store.vendor
           /\ Len(store.comment_list) = n + Len(values)
           /\ \A i \in 1..n : store.comment_list[i] = before[i]
           /\ \A j \in 1..Len(values) :
                  store.comment_list[n + j] = <<to_lowercase(last_op.tag), values[j]>>
           /\ get_tag_multi(store, last_op.tag)
                  = get_tag_multi(prev_store, last_op.tag) \o values
           /\ \A i \in 1..(Len(names) - 1) : LexLess(names[i], names[i + 1])
           /\ values # <<>> =>
                  Cardinality({i \in 1..Len(names) :
                                   names[i] = to_lowercase(last_op.tag)}) = 1

\* two values appended after an entry from() stored as "aB": there is
\* one name although three entries share the key
C16_Witness ==
    /\ last_op.op = "add_tag_multi" /\ last_op.tag = <<65, 98>>
    /\ last_op.values = << <<86>>, <<>> >>
    /\ prev_store.comment_list = << <<<<97, 66>>, <<>>>> >>
    /\ store.comment_list = << <<<<97, 66>>, <<>>>>, <<<<97, 98>>, <<86>>>>,
                               <<<<97, 98>>, <<>>>> >>
    /\ get_tag_names(store) = << <<97, 98>> >>

(* C17: boundary classification.  Every emitted packet is classified       *)
(* EndStream when its input packet is last in its stream, whether or not   *)
(* it is also last in its page; else EndPage when it is last in its page;  *)
(* else NormalPacket.  The classification comes from the input packet's    *)
(* flags and is the same when the payload was replaced.                    *)
C17_BoundaryClassification ==
    \A i \in 1..Len(f_out) :
        /\ f_in[i].last_in_stream => f_out[i].inf = "EndStream"
        /\ (~f_in[i].last_in_stream /\ f_in[i].last_in_page)
               => f_out[i].inf = "EndPage"
        /\ (~f_in[i].last_in_stream /\ ~f_in[i].last_in_page)
               => f_out[i].inf = "NormalPacket"

\* a replaced packet flagged both ways is EndStream
C17_Witness ==
    /\ Len(f_out) = 2 /\ replaced = <<2>>
    /\ f_out[2].data # f_in[2].data
    /\ f_in[2].last_in_stream /\ f_in[2].last_in_page
    /\ f_out[2].inf = "EndStream"
    /\ f_in[1].last_in_page /\ f_out[1].inf = "EndPage"

\* emitted packets whose input packet is flagged last-in-page and last-in-stream
EmittedTerminal ==
    {i \in 1..Len(f_out) : f_in[i].last_in_page /\ f_in[i].last_in_stream}

(* C18: terminal packet.  Once a packet flagged both last-in-page and      *)
(* last-in-stream has been emitted the run has stopped: that packet is the *)
(* last one read and the last one written.  A packet flagged only          *)
(* last-in-stream or only last-in-page does not stop the run: while no     *)
(* packet flagged both has been emitted and input remains, the loop goes   *)
(* on.                                                                     *)
C18_TerminalPacket ==
    LET T == EmittedTerminal
    IN /\ T # {} =>
              /\ Len(f_out) = Min(T) /\ rpos = Min(T)
              /\ pc \in {"rewind", "returned"} /\ exit_by = "terminal"
       /\ (T = {} /\ rpos < Len(f_in)) => pc \in {"call", "loop", "panicked"}

\* packets flagged one way only were passed; the run ended at the packet
\* flagged both ways with input left
C18_Witness ==
    /\ pc = "returned" /\ exit_by = "terminal"
    /\ Len(f_in) = 3 /\ Len(f_out) = 2 /\ rpos = 2
    /\ f_in[1].last_in_page /\ ~f_in[1].last_in_stream
    /\ f_in[2].last_in_page /\ f_in[2].last_in_stream

(* C19: termination and Done.  On every finite input the rewrite leaves    *)
(* its loop, by the end of the input, a failed read or the terminal        *)
(* packet: in the loop a step is always possible (a packet is left to     *)
(* read, or the end of the input is met), and every step of the loop       *)
(* either leaves it in one of these three ways or reads one more of the    *)
(* finitely many packets.  Whenever the call has returned Ok the read      *)
(* position of the output is zero, however many packets were written.      *)
C19_TerminatesRewound ==
    /\ [](pc = "loop" => (rpos < Len(f_in) \/ ENABLED LoopEnd))
    /\ [](pc = "rewind" => ENABLED Rewind)
    /\ [][pc = "loop" =>
              \/ pc' = "rewind" /\ exit_by' \in {"eof", "read_error", "terminal"}
              \/ /\ pc' = "loop" /\ f_in' = f_in
                 /\ rpos' = rpos + 1 /\ rpos' <= Len(f_in)]_vars
    /\ [](result = "Ok" => (pc = "returned" /\ f_out_pos = 0))

C19_Witness ==
    /\ pc = "returned" /\ result = "Ok" /\ exit_by = "eof"
    /\ Len(f_out) = 3 /\ f_out_pos = 0

(* C20: prefix invariant.  Between any two iterations the packets written  *)
(* correspond one for one, in order, to the packets read: as many written  *)
(* as read, the i-th written carrying the serial and granule position of   *)
(* the i-th read and its payload unless it is the substituted one.         *)
C20_PrefixInvariant ==
    /\ Len(f_out) = rpos /\ rpos <= Len(f_in)
    /\ \A i \in 1..Len(f_out) :
           /\ f_out[i].stream_serial = f_in[i].stream_serial
           /\ f_out[i].absgp_page = f_in[i].absgp_page
           /\ f_out[i].data = f_in[i].data \/ replaced = <<i>>

\* in the middle of a run, after a substitution and a copy
C20_Witness ==
    /\ pc = "loop" /\ Len(f_in) = 3 /\ rpos = 2 /\ Len(f_out) = 2
    /\ replaced = <<1>> /\ f_out[1].data # f_in[1].data
    /\ f_in[1].stream_serial # f_in[2].stream_serial

====
